---------------------------- MODULE Spec2Model ----------------------------
(***************************************************************************)
(* A model of serverflow's kernel: the dual-headed message queue           *)
(* (msgqueue.c) and the worker pool built on it (thrdpool.c).              *)
(*                                                                         *)
(* The queue is modelled at pointer level: the two list heads head1/head2, *)
(* the intrusive link of every entry, and get_head / put_head / put_tail   *)
(* as designators of those slots.  Every thread has a program counter; an  *)
(* action is one critical section (or one unsynchronised access) of the C  *)
(* code.  pthread mutexes are holder fields, a condition variable is the   *)
(* set of threads blocked on it.                                           *)
(***************************************************************************)
EXTENDS Integers, Sequences, FiniteSets

VARIABLES
    queue,    \* struct __msgqueue
    head,     \* head[1], head[2]: the slots head1 and head2
    link,     \* link[e]: the intrusive link slot of entry e
    pool,     \* struct __thrdpool, with its allocation state
    tls,      \* tls[t][k]: pthread_getspecific(k) on thread t
    pc,       \* pc[t]: where thread t stands
    local,    \* local[t]: the automatic variables of t's active frames
    blocked,  \* threads inside pthread_cond_wait that no signal has reached yet
    task,     \* task[e]: the routine stored in task entry e
    ncalls,   \* ncalls[t]: calls a client thread has made so far
    ran,      \* ran[e]: times a worker invoked the routine of entry e
    pended,   \* pended[e]: times destroy handed entry e to the pending hook
    puts,     \* entries in the order they were appended to the producer list
    gots,     \* [e, by]: the entries in the order get popped them, and who did
    nulls,    \* null results handed out by get so far
    joined,   \* joined[t]: pthread_join calls that reaped worker t
    ub        \* an access with undefined behaviour has been executed

vars == <<queue, head, link, pool, tls, pc, local, blocked, task, ncalls,
          ran, pended, puts, gots, nulls, joined, ub>>

-----------------------------------------------------------------------------
(* Bounds of the model *)

\* messages the producers put altogether (tasks the pool's owner schedules)
MaxPuts == 3
\* get calls the plain consumers make altogether
MaxGets == 4

-----------------------------------------------------------------------------
(* Threads and values *)

\* size_t, narrowed to WordBits bits
WordBits == 8
Word == 2 ^ WordBits

\* a - b computed in signed arithmetic, without the wrap-around
WordSubSigned(a, b) == a - b

\* a - b in size_t arithmetic
WordSub(a, b) == (a - b + Word) % Word

QProducers == {"p1", "p2"}
QConsumers == {"c1", "c2"}
QControl   == {"ctl"}
\* the workers thrdpool_create spawns, and the one thrdpool_increase can add
Created    == {"w1", "w2"}
Spare      == {"w3"}
\* the worker of a pool created with one thread
First      == {"w1"}
Workers    == Created \cup Spare
Foreign    == {"f1"}
Main       == {"main"}
\* a second client thread of the pool, which calls thrdpool_increase
Growers    == {"g1"}
Threads    == QProducers \cup QConsumers \cup QControl \cup Workers
                 \cup Foreign \cup Main \cup Growers

NoThread == "none"
\* static pthread_t __zero_tid
ZeroTid == "zero"
\* a null pthread_cond_t *
NoCond == "nullcond"

NULL == 0

\* the values of maxlen the queue is created with: the pool's 0, and 1
MsgMaxes == {0, 1}

\* calls made so far by the threads of S
Calls(S) == LET RECURSIVE Sum(_)
                Sum(T) == IF T = {} THEN 0
                          ELSE LET x == CHOOSE x \in T : TRUE
                               IN ncalls[x] + Sum(T \ {x})
            IN Sum(S)
PIdx(t) == IF t = "p2" THEN 1 ELSE 0
Entry == 1 .. (2 * MaxPuts)
EntryOf(t, i) == PIdx(t) * MaxPuts + i
Owner(e) == (e - 1) \div MaxPuts

\* the two pools of the process and their thread-local keys
Pools == {"pool", "other"}
KeyOf(p) == IF p = "pool" THEN "key" ELSE "otherkey"
Keys == {KeyOf(p) : p \in Pools}
PoolOf(t) == IF t \in Foreign THEN "other" ELSE "pool"
NoPool == "nullpool"

\* a designator of a link slot: &queue->headN or the link of an entry
HeadSlot(h) == [kind |-> "head", at |-> h]
LinkSlot(e) == [kind |-> "link", at |-> e]

NoLocal == [msg |-> NULL, get_head |-> 0, cnt |-> 0, tid |-> ZeroTid,
            in_pool |-> FALSE, in_destroy |-> FALSE, entry |-> NULL,
            in_create |-> FALSE, ret |-> 0]

-----------------------------------------------------------------------------
(* Lists *)

\* the entries reachable from slot value e by following links
RECURSIVE Chain(_, _)
Chain(e, n) ==
    IF e = NULL \/ n = 0 THEN << >> ELSE <<e>> \o Chain(link[e], n - 1)

ListAt(h) == Chain(head[h], 2 * MaxPuts)
SeqSet(s) == {s[i] : i \in 1 .. Len(s)}

ConsumerList == ListAt(queue.get_head)
ProducerList == ListAt(queue.put_head)
QueueEntries == SeqSet(ListAt(1)) \cup SeqSet(ListAt(2))

-----------------------------------------------------------------------------
(* pthread primitives *)

\* the condition variable a thread inside pthread_cond_wait is blocked on
CondOf(t) ==
    CASE pc[t] = "swap_wait" -> "get_cond"
      [] pc[t] = "put_wait"  -> "put_cond"
      [] pc[t] = "t_wait"    -> t
      [] OTHER               -> NoCond

Waiters(c) == {t \in blocked : CondOf(t) = c}

\* pthread_cond_signal(c): the values blocked may take
Signalled(c) ==
    IF Waiters(c) = {} THEN {blocked} ELSE {blocked \ {t} : t \in Waiters(c)}

\* pthread_cond_broadcast(c)
Broadcast(c, b) == b \ {t \in b : CondOf(t) = c}

\* the storage an operation of the queue (of the pool's mutex) works on exists
QueueLive == ~pool.destroyed
\* the pool structure has not been handed to free()
PoolLive == pool.freed = 0

Goto(t, l) == pc' = [pc EXCEPT ![t] = l]

\* where a thread continues when msgqueue_get returns
AfterGet(t) ==
    IF local[t].in_destroy THEN "d_got"
    ELSE IF t \in Workers THEN "w_got" ELSE "idle"

\* where a thread continues when msgqueue_set_nonblock returns
AfterSetNonblock(t) ==
    IF local[t].in_destroy \/ local[t].in_create THEN "t_set" ELSE "done"

\* pthread_cond_wait returns: the thread was woken and takes its mutex again
cond_wait_return(t) ==
    /\ pc[t] \in {"swap_wait", "put_wait", "t_wait"}
    /\ t \notin blocked
    /\ QueueLive
    /\ IF pc[t] = "t_wait"
       THEN /\ pool.mutex = NoThread
            /\ pool' = [pool EXCEPT !.mutex = t]
            /\ Goto(t, "t_check")
            /\ UNCHANGED queue
       ELSE /\ queue.put_mutex = NoThread
            /\ queue' = [queue EXCEPT !.put_mutex = t]
            /\ Goto(t, IF pc[t] = "swap_wait" THEN "swap_check" ELSE "put_check")
            /\ UNCHANGED pool
    /\ UNCHANGED <<head, link, tls, local, blocked, task, ncalls, ran, pended,
                   puts, gots, nulls, joined, ub>>

\* a spurious wake-up, which pthread_cond_wait permits
spurious_wakeup(t) ==
    /\ t \in blocked
    /\ CondOf(t) # NoCond
    /\ blocked' = blocked \ {t}
    /\ UNCHANGED <<queue, head, link, pool, tls, pc, local, task, ncalls, ran,
                   pended, puts, gots, nulls, joined, ub>>

-----------------------------------------------------------------------------
(* msgqueue_put *)

\* put_lock that goes on without taking put_mutex
put_lock_nolock(t) ==
    /\ pc[t] = "put_lock"
    /\ QueueLive
    /\ link' = [link EXCEPT ![local[t].msg] = NULL]
    /\ Goto(t, "put_check")
    /\ UNCHANGED <<queue, head, pool, tls, local, blocked, task, ncalls, ran,
                   pended, puts, gots, nulls, joined, ub>>

\* *link = NULL; pthread_mutex_lock(&queue->put_mutex)
put_lock(t) ==
    /\ pc[t] = "put_lock"
    /\ QueueLive
    /\ queue.put_mutex = NoThread
    /\ link' = [link EXCEPT ![local[t].msg] = NULL]
    /\ queue' = [queue EXCEPT !.put_mutex = t]
    /\ Goto(t, "put_check")
    /\ UNCHANGED <<head, pool, tls, local, blocked, task, ncalls, ran, pended,
                   puts, gots, nulls, joined, ub>>

\* while (msg_cnt > msg_max - 1 && !nonblock) pthread_cond_wait(&put_cond, ...)
put_check(t) ==
    /\ pc[t] = "put_check"
    /\ IF queue.msg_cnt > WordSub(queue.msg_max, 1) /\ ~queue.nonblock
       THEN /\ queue' = [queue EXCEPT !.put_mutex = NoThread]
            /\ blocked' = blocked \cup {t}
            /\ Goto(t, "put_wait")
       ELSE /\ Goto(t, "put_append")
            /\ UNCHANGED <<queue, blocked>>
    /\ UNCHANGED <<head, link, pool, tls, local, task, ncalls, ran, pended,
                   puts, gots, nulls, joined, ub>>

\* put_append with the entry pushed at the head of the producer list
\* instead of being linked behind put_tail
put_append_front(t) ==
    /\ pc[t] = "put_append"
    /\ LET m == local[t].msg
       IN /\ link' = [link EXCEPT ![m] = head[queue.put_head]]
          /\ head' = [head EXCEPT ![queue.put_head] = m]
          /\ queue' = [queue EXCEPT !.put_mutex = NoThread]
          /\ puts' = Append(puts, m)
    /\ Goto(t, "put_signal")
    /\ UNCHANGED <<pool, tls, local, blocked, task, ncalls, ran, pended, gots,
                   nulls, joined, ub>>

\* *queue->put_tail = link; queue->put_tail = link; unlock(&put_mutex)
put_append(t) ==
    /\ pc[t] = "put_append"
    /\ LET m == local[t].msg
           at == queue.put_tail
       IN /\ IF at.kind = "head"
             THEN /\ head' = [head EXCEPT ![at.at] = m]
                  /\ UNCHANGED link
             ELSE /\ link' = [link EXCEPT ![at.at] = m]
                  /\ UNCHANGED head
          /\ queue' = [queue EXCEPT !.put_tail = LinkSlot(m),
                                    !.put_mutex = NoThread]
          /\ puts' = Append(puts, m)
    /\ Goto(t, "put_signal")
    /\ UNCHANGED <<pool, tls, local, blocked, task, ncalls, ran, pended, gots,
                   nulls, joined, ub>>

\* pthread_cond_signal(&queue->get_cond); return
put_signal(t) ==
    /\ pc[t] = "put_signal"
    /\ QueueLive
    /\ blocked' \in Signalled("get_cond")
    /\ Goto(t, "idle")
    /\ local' = [local EXCEPT ![t].msg = NULL]
    /\ UNCHANGED <<queue, head, link, pool, tls, task, ncalls, ran, pended,
                   puts, gots, nulls, joined, ub>>

-----------------------------------------------------------------------------
(* msgqueue_get and __msgqueue_swap *)

\* pthread_mutex_lock(&queue->get_mutex)
get_lock(t) ==
    /\ pc[t] = "get_lock"
    /\ QueueLive
    /\ queue.get_mutex = NoThread
    /\ queue' = [queue EXCEPT !.get_mutex = t]
    /\ Goto(t, "get_test")
    /\ UNCHANGED <<head, link, pool, tls, local, blocked, task, ncalls, ran,
                   pended, puts, gots, nulls, joined, ub>>

\* if (*queue->get_head || __msgqueue_swap(queue) ...: the test, and on an
\* empty consumer list the entry of the swap:
\*   void **get_head = queue->get_head; queue->get_head = queue->put_head
get_test(t) ==
    /\ pc[t] = "get_test"
    /\ IF head[queue.get_head] # NULL
       THEN /\ Goto(t, "get_pop")
            /\ UNCHANGED <<queue, local>>
       ELSE /\ local' = [local EXCEPT ![t].get_head = queue.get_head]
            /\ queue' = [queue EXCEPT !.get_head = queue.put_head]
            /\ Goto(t, "swap_lock")
    /\ UNCHANGED <<head, link, pool, tls, blocked, task, ncalls, ran, pended,
                   puts, gots, nulls, joined, ub>>

\* pthread_mutex_lock(&queue->put_mutex) in the swap
swap_lock(t) ==
    /\ pc[t] = "swap_lock"
    /\ queue.put_mutex = NoThread
    /\ queue' = [queue EXCEPT !.put_mutex = t]
    /\ Goto(t, "swap_check")
    /\ UNCHANGED <<head, link, pool, tls, local, blocked, task, ncalls, ran,
                   pended, puts, gots, nulls, joined, ub>>

\* while (msg_cnt == 0 && !nonblock) pthread_cond_wait(&get_cond, &put_mutex)
swap_check(t) ==
    /\ pc[t] = "swap_check"
    /\ IF queue.msg_cnt = 0 /\ ~queue.nonblock
       THEN /\ queue' = [queue EXCEPT !.put_mutex = NoThread]
            /\ blocked' = blocked \cup {t}
            /\ Goto(t, "swap_wait")
       ELSE /\ Goto(t, "swap_move")
            /\ UNCHANGED <<queue, blocked>>
    /\ UNCHANGED <<head, link, pool, tls, local, task, ncalls, ran, pended,
                   puts, gots, nulls, joined, ub>>

\* swap_move that leaves put_head and put_tail where they are
swap_move_keep(t) ==
    /\ pc[t] = "swap_move"
    /\ LET cnt == queue.msg_cnt
       IN /\ blocked' = IF cnt > WordSub(queue.msg_max, 1)
                        THEN Broadcast("put_cond", blocked) ELSE blocked
          /\ queue' = [queue EXCEPT !.msg_cnt = 0, !.put_mutex = NoThread]
          /\ local' = [local EXCEPT ![t].cnt = cnt, ![t].msg = NULL]
          /\ Goto(t, IF cnt > 0 THEN "get_pop" ELSE "get_unlock")
    /\ UNCHANGED <<head, link, pool, tls, task, ncalls, ran, pended, puts,
                   gots, nulls, joined, ub>>

\* cnt = msg_cnt; if (cnt > msg_max - 1) broadcast(&put_cond);
\* put_head = put_tail = get_head; msg_cnt = 0; unlock(&put_mutex); return cnt
\* and, back in msgqueue_get, the else branch msg = NULL when cnt is 0
swap_move(t) ==
    /\ pc[t] = "swap_move"
    /\ LET cnt == queue.msg_cnt
       IN /\ blocked' = IF cnt > WordSub(queue.msg_max, 1)
                        THEN Broadcast("put_cond", blocked) ELSE blocked
          /\ queue' = [queue EXCEPT !.put_head = local[t].get_head,
                                    !.put_tail = HeadSlot(local[t].get_head),
                                    !.msg_cnt = 0,
                                    !.put_mutex = NoThread]
          /\ local' = [local EXCEPT ![t].cnt = cnt, ![t].msg = NULL]
          /\ Goto(t, IF cnt > 0 THEN "get_pop" ELSE "get_unlock")
    /\ UNCHANGED <<head, link, pool, tls, task, ncalls, ran, pended, puts,
                   gots, nulls, joined, ub>>

\* get_pop that returns the head entry without unlinking it
get_pop_keep(t) ==
    /\ pc[t] = "get_pop"
    /\ LET m == head[queue.get_head]
       IN /\ m # NULL
          /\ local' = [local EXCEPT ![t].msg = m]
          /\ gots' = Append(gots, [e |-> m, by |-> t])
          /\ Goto(t, "get_unlock")
    /\ UNCHANGED <<queue, head, link, pool, tls, blocked, task, ncalls, ran,
                   pended, puts, nulls, joined, ub>>

\* msg = *get_head - link_off; *get_head = *(void **)*get_head
\* (with an empty list the second statement reads through a null pointer)
get_pop(t) ==
    /\ pc[t] = "get_pop"
    /\ LET m == head[queue.get_head]
       IN IF m = NULL
          THEN /\ ub' = TRUE
               /\ Goto(t, "ub")
               /\ UNCHANGED <<head, local, gots>>
          ELSE /\ head' = [head EXCEPT ![queue.get_head] = link[m]]
               /\ local' = [local EXCEPT ![t].msg = m]
               /\ gots' = Append(gots, [e |-> m, by |-> t])
               /\ Goto(t, "get_unlock")
               /\ UNCHANGED ub
    /\ UNCHANGED <<queue, link, pool, tls, blocked, task, ncalls, ran, pended,
                   puts, nulls, joined>>

\* pthread_mutex_unlock(&queue->get_mutex); return msg
get_unlock(t) ==
    /\ pc[t] = "get_unlock"
    /\ queue' = [queue EXCEPT !.get_mutex = NoThread]
    /\ nulls' = IF local[t].msg = NULL THEN nulls + 1 ELSE nulls
    /\ local' = [local EXCEPT ![t].get_head = 0, ![t].cnt = 0]
    /\ Goto(t, AfterGet(t))
    /\ UNCHANGED <<head, link, pool, tls, blocked, task, ncalls, ran, pended,
                   puts, gots, joined, ub>>

-----------------------------------------------------------------------------
(* msgqueue_set_nonblock: declared in msgqueue.h, its body taken from the    *)
(* design: take both mutexes in the order get, put; set nonblock;           *)
(* broadcast both condition variables; release.                            *)

snb_lock_get(t) ==
    /\ pc[t] = "snb_lock_get"
    /\ QueueLive
    /\ queue.get_mutex = NoThread
    /\ queue' = [queue EXCEPT !.get_mutex = t]
    /\ Goto(t, "snb_lock_put")
    /\ UNCHANGED <<head, link, pool, tls, local, blocked, task, ncalls, ran,
                   pended, puts, gots, nulls, joined, ub>>

snb_lock_put(t) ==
    /\ pc[t] = "snb_lock_put"
    /\ queue.put_mutex = NoThread
    /\ queue' = [queue EXCEPT !.put_mutex = t]
    /\ Goto(t, "snb_set")
    /\ UNCHANGED <<head, link, pool, tls, local, blocked, task, ncalls, ran,
                   pended, puts, gots, nulls, joined, ub>>

snb_set(t) ==
    /\ pc[t] = "snb_set"
    /\ queue' = [queue EXCEPT !.nonblock = TRUE,
                              !.put_mutex = NoThread,
                              !.get_mutex = NoThread]
    /\ blocked' = Broadcast("put_cond", Broadcast("get_cond", blocked))
    /\ Goto(t, AfterSetNonblock(t))
    /\ UNCHANGED <<head, link, pool, tls, local, task, ncalls, ran, pended,
                   puts, gots, nulls, joined, ub>>

-----------------------------------------------------------------------------
(* msgqueue_set_block: declared in msgqueue.h, its body taken from the       *)
(* design: the symmetric clear under both mutexes.                          *)

sb_lock_get(t) ==
    /\ pc[t] = "sb_lock_get"
    /\ QueueLive
    /\ queue.get_mutex = NoThread
    /\ queue' = [queue EXCEPT !.get_mutex = t]
    /\ Goto(t, "sb_lock_put")
    /\ UNCHANGED <<head, link, pool, tls, local, blocked, task, ncalls, ran,
                   pended, puts, gots, nulls, joined, ub>>

sb_lock_put(t) ==
    /\ pc[t] = "sb_lock_put"
    /\ queue.put_mutex = NoThread
    /\ queue' = [queue EXCEPT !.put_mutex = t]
    /\ Goto(t, "sb_clear")
    /\ UNCHANGED <<head, link, pool, tls, local, blocked, task, ncalls, ran,
                   pended, puts, gots, nulls, joined, ub>>

sb_clear(t) ==
    /\ pc[t] = "sb_clear"
    /\ queue' = [queue EXCEPT !.nonblock = FALSE,
                              !.put_mutex = NoThread,
                              !.get_mutex = NoThread]
    /\ Goto(t, "finished")
    /\ UNCHANGED <<head, link, pool, tls, local, blocked, task, ncalls, ran,
                   pended, puts, gots, nulls, joined, ub>>

-----------------------------------------------------------------------------
(* The queue alone, with producer, consumer and control threads *)

\* msgqueue_create(maxlen, 0)
msgqueue_create(maxlen) ==
    [msg_max |-> maxlen, msg_cnt |-> 0, nonblock |-> FALSE,
     get_head |-> 1, put_head |-> 2, put_tail |-> HeadSlot(2),
     get_mutex |-> NoThread, put_mutex |-> NoThread]

NoPoolState ==
    [nthreads |-> 0, tid |-> ZeroTid, mutex |-> NoThread, terminate |-> NoCond,
     destroyed |-> FALSE, freed |-> 0]

QThreads == QProducers \cup QConsumers \cup QControl

QInit ==
    /\ queue \in {msgqueue_create(m) : m \in MsgMaxes}
    /\ head = [h \in {1, 2} |-> NULL]
    /\ link = [e \in Entry |-> NULL]
    /\ pool = NoPoolState
    /\ tls = [t \in Threads |-> [k \in Keys |-> NoPool]]
    /\ pc = [t \in Threads |-> IF t \in QThreads THEN "idle" ELSE "off"]
    /\ local = [t \in Threads |-> NoLocal]
    /\ blocked = {}
    /\ task = [e \in Entry |-> "none"]
    /\ ncalls = [t \in Threads |-> 0]
    /\ ran = [e \in Entry |-> 0]
    /\ pended = [e \in Entry |-> 0]
    /\ puts = << >>
    /\ gots = << >>
    /\ nulls = 0
    /\ joined = [t \in Threads |-> 0]
    /\ ub = FALSE

\* a producer calls msgqueue_put with its next message
q_put(t) ==
    /\ t \in QProducers
    /\ pc[t] = "idle"
    /\ Calls(QProducers) < MaxPuts
    /\ ncalls' = [ncalls EXCEPT ![t] = @ + 1]
    /\ local' = [local EXCEPT ![t].msg = EntryOf(t, ncalls[t] + 1)]
    /\ Goto(t, "put_lock")
    /\ UNCHANGED <<queue, head, link, pool, tls, blocked, task, ran, pended,
                   puts, gots, nulls, joined, ub>>

\* a consumer calls msgqueue_get
q_get(t) ==
    /\ t \in QConsumers
    /\ pc[t] = "idle"
    /\ Calls(QConsumers) < MaxGets
    /\ ncalls' = [ncalls EXCEPT ![t] = @ + 1]
    /\ local' = [local EXCEPT ![t].msg = NULL]
    /\ Goto(t, "get_lock")
    /\ UNCHANGED <<queue, head, link, pool, tls, blocked, task, ran, pended,
                   puts, gots, nulls, joined, ub>>

\* the control thread calls msgqueue_set_nonblock
q_set_nonblock(t) ==
    /\ t \in QControl
    /\ pc[t] = "idle"
    /\ Goto(t, "snb_lock_get")
    /\ UNCHANGED <<queue, head, link, pool, tls, local, blocked, task, ncalls,
                   ran, pended, puts, gots, nulls, joined, ub>>

\* the control thread, back from msgqueue_set_nonblock, calls
\* msgqueue_set_block
q_set_block(t) ==
    /\ t \in QControl
    /\ pc[t] = "done"
    /\ Goto(t, "sb_lock_get")
    /\ UNCHANGED <<queue, head, link, pool, tls, local, blocked, task, ncalls,
                   ran, pended, puts, gots, nulls, joined, ub>>

\* one step inside a queue operation
QueueStep(t) ==
    \/ put_lock(t) \/ put_check(t) \/ put_append(t) \/ put_signal(t)
    \/ get_lock(t) \/ get_test(t) \/ swap_lock(t) \/ swap_check(t)
    \/ swap_move(t) \/ get_pop(t) \/ get_unlock(t)
    \/ snb_lock_get(t) \/ snb_lock_put(t) \/ snb_set(t)
    \/ cond_wait_return(t)

QNext ==
    \E t \in Threads :
        \/ QueueStep(t)
        \/ spurious_wakeup(t)
        \/ q_put(t) \/ q_get(t) \/ q_set_nonblock(t)

QueueSpec == QInit /\ [][QNext]_vars

\* a thread whose next step is enabled again and again eventually takes it
\* (a thread waiting for a mutex that keeps being released gets it)
QueueFair == \A t \in QThreads : SF_vars(QueueStep(t))
FairQueueSpec == QueueSpec /\ QueueFair

\* the queue with one producer, two consumers and a control thread that
\* calls msgqueue_set_nonblock and then msgqueue_set_block
LThreads == QThreads \ {"p2"}

LockNext ==
    \E t \in LThreads :
        \/ QueueStep(t)
        \/ sb_lock_get(t) \/ sb_lock_put(t) \/ sb_clear(t)
        \/ spurious_wakeup(t)
        \/ q_put(t) \/ q_get(t) \/ q_set_nonblock(t) \/ q_set_block(t)

LockSpec == QInit /\ [][LockNext]_vars

-----------------------------------------------------------------------------
(* thrdpool_in_pool *)

\* thrdpool_in_pool that only tests whether the thread carries a pool
\* pointer under any key
thrdpool_in_pool_anykey(t, p) == \E k \in Keys : tls[t][k] # NoPool

\* pthread_getspecific(pool->key) == pool, evaluated on thread t
thrdpool_in_pool(t, p) == tls[t][KeyOf(p)] = p

-----------------------------------------------------------------------------
(* __thrdpool_routine *)

\* pthread_setspecific(pool->key, pool)
\* (a worker of the other pool then serves that pool's queue)
w_start(t) ==
    /\ pc[t] = "w_start"
    /\ tls' = [tls EXCEPT ![t][KeyOf(PoolOf(t))] = PoolOf(t)]
    /\ Goto(t, IF t \in Foreign THEN "f_run" ELSE "w_loop")
    /\ UNCHANGED <<queue, head, link, pool, local, blocked, task, ncalls, ran,
                   pended, puts, gots, nulls, joined, ub>>

\* while (!pool->terminate) entry = msgqueue_get(pool->msgqueue)
w_loop(t) ==
    /\ pc[t] = "w_loop"
    /\ PoolLive
    /\ Goto(t, IF pool.terminate = NoCond THEN "get_lock" ELSE "x_lock")
    /\ UNCHANGED <<queue, head, link, pool, tls, local, blocked, task, ncalls,
                   ran, pended, puts, gots, nulls, joined, ub>>

\* if (!entry) break; task_routine = ...; task_context = ...; free(entry)
w_got(t) ==
    /\ pc[t] = "w_got"
    /\ IF local[t].msg = NULL
       THEN /\ Goto(t, "x_lock")
            /\ UNCHANGED local
       ELSE /\ local' = [local EXCEPT ![t].entry = local[t].msg, ![t].msg = NULL]
            /\ Goto(t, "w_task")
    /\ UNCHANGED <<queue, head, link, pool, tls, blocked, task, ncalls, ran,
                   pended, puts, gots, nulls, joined, ub>>

\* task_routine(task_context): a plain routine runs to its end; a routine of
\* the other kind calls thrdpool_destory on its own pool
w_task(t) ==
    /\ pc[t] = "w_task"
    /\ ran' = [ran EXCEPT ![local[t].entry] = @ + 1]
    /\ Goto(t, IF task[local[t].entry] = "destroy" THEN "d_enter" ELSE "w_after")
    /\ UNCHANGED <<queue, head, link, pool, tls, local, blocked, task, ncalls,
                   pended, puts, gots, nulls, joined, ub>>

\* if (pool->nthreads == 0) { free(pool); return NULL; }
w_after(t) ==
    /\ pc[t] = "w_after"
    /\ PoolLive
    /\ IF pool.nthreads = 0
       THEN /\ pool' = [pool EXCEPT !.freed = @ + 1]
            /\ Goto(t, "done")
       ELSE /\ Goto(t, "w_loop")
            /\ UNCHANGED pool
    /\ local' = [local EXCEPT ![t].entry = NULL]
    /\ UNCHANGED <<queue, head, link, tls, blocked, task, ncalls, ran, pended,
                   puts, gots, nulls, joined, ub>>

\* pthread_mutex_lock(&pool->mutex) of the exit protocol
x_lock(t) ==
    /\ pc[t] = "x_lock"
    /\ QueueLive
    /\ pool.mutex = NoThread
    /\ pool' = [pool EXCEPT !.mutex = t]
    /\ Goto(t, "x_leave")
    /\ UNCHANGED <<queue, head, link, tls, local, blocked, task, ncalls, ran,
                   pended, puts, gots, nulls, joined, ub>>

\* tid = pool->tid; pool->tid = pthread_self();
\* if (--pool->nthreads == 0) pthread_cond_signal(pool->terminate); unlock
x_leave(t) ==
    /\ pc[t] = "x_leave"
    /\ LET n == WordSub(pool.nthreads, 1)
       IN /\ pool' = [pool EXCEPT !.tid = t, !.nthreads = n, !.mutex = NoThread]
          /\ IF n = 0
             THEN /\ blocked' \in Signalled(pool.terminate)
                  /\ ub' = (ub \/ pool.terminate = NoCond)
             ELSE UNCHANGED <<blocked, ub>>
    /\ local' = [local EXCEPT ![t].tid = pool.tid]
    /\ Goto(t, "x_join")
    /\ UNCHANGED <<queue, head, link, tls, task, ncalls, ran, pended, puts,
                   gots, nulls, joined>>

\* if (memcmp(&tid, &__zero_tid, ...) != 0) pthread_join(tid, NULL);
\* return NULL
x_join(t) ==
    /\ pc[t] = "x_join"
    /\ IF local[t].tid = ZeroTid
       THEN UNCHANGED joined
       ELSE /\ pc[local[t].tid] = "done"
            /\ joined' = [joined EXCEPT ![local[t].tid] = @ + 1]
    /\ local' = [local EXCEPT ![t].tid = ZeroTid]
    /\ Goto(t, "done")
    /\ UNCHANGED <<queue, head, link, pool, tls, blocked, task, ncalls, ran,
                   pended, puts, gots, nulls, ub>>

-----------------------------------------------------------------------------
(* thrdpool_destory and __thrdpool_terminate *)

\* int in_pool = thrdpool_in_pool(pool); __thrdpool_terminate(in_pool, pool)
d_enter(t) ==
    /\ pc[t] = "d_enter"
    /\ PoolLive
    /\ local' = [local EXCEPT ![t].in_pool = thrdpool_in_pool(t, "pool"),
                              ![t].in_destroy = TRUE]
    /\ Goto(t, "t_lock")
    /\ UNCHANGED <<queue, head, link, pool, tls, blocked, task, ncalls, ran,
                   pended, puts, gots, nulls, joined, ub>>

\* pthread_mutex_lock(&pool->mutex); then msgqueue_set_nonblock is called
t_lock(t) ==
    /\ pc[t] = "t_lock"
    /\ QueueLive
    /\ pool.mutex = NoThread
    /\ pool' = [pool EXCEPT !.mutex = t]
    /\ Goto(t, "snb_lock_get")
    /\ UNCHANGED <<queue, head, link, tls, local, blocked, task, ncalls, ran,
                   pended, puts, gots, nulls, joined, ub>>

\* pool->terminate = &term;
\* if (in_pool) { pthread_detach(pthread_self()); pool->nthreads--; }
t_set(t) ==
    /\ pc[t] = "t_set"
    /\ pool' = [pool EXCEPT !.terminate = t,
                            !.nthreads = IF local[t].in_pool
                                         THEN WordSub(@, 1) ELSE @]
    /\ Goto(t, "t_check")
    /\ UNCHANGED <<queue, head, link, tls, local, blocked, task, ncalls, ran,
                   pended, puts, gots, nulls, joined, ub>>

\* while (pool->nthreads > 0) pthread_cond_wait(&term, &pool->mutex);
\* pthread_mutex_unlock(&pool->mutex)
t_check(t) ==
    /\ pc[t] = "t_check"
    /\ pool' = [pool EXCEPT !.mutex = NoThread]
    /\ IF pool.nthreads > 0
       THEN /\ blocked' = blocked \cup {t}
            /\ Goto(t, "t_wait")
       ELSE /\ Goto(t, "t_join")
            /\ UNCHANGED blocked
    /\ UNCHANGED <<queue, head, link, tls, local, task, ncalls, ran, pended,
                   puts, gots, nulls, joined, ub>>

\* if (memcpy(&pool->tid, &__zero_tid, sizeof(pthread_t)) != 0)
\*     pthread_join(pool->tid, NULL);
\* memcpy returns its destination, so the branch is always taken, and
\* pool->tid is the zero identity by then: the join names no thread, which is
\* undefined; it fails with ESRCH or brings the process down
t_join(t) ==
    /\ pc[t] = "t_join"
    /\ pool' = [pool EXCEPT !.tid = ZeroTid]
    /\ ub' = TRUE
    /\ \E outcome \in {"ESRCH", "crash"} :
          IF outcome = "crash"
          THEN pc' = [u \in Threads |-> IF pc[u] = "off" THEN "off" ELSE "crashed"]
          ELSE Goto(t, IF local[t].in_create THEN "c_rollback" ELSE "get_lock")
    /\ UNCHANGED <<queue, head, link, tls, local, blocked, task, ncalls, ran,
                   pended, puts, gots, nulls, joined>>

\* the drain loop of thrdpool_destory:
\* if (!entry) break; if (pending) pending(&entry->task); free(entry)
d_got(t) ==
    /\ pc[t] = "d_got"
    /\ IF local[t].msg = NULL
       THEN /\ Goto(t, "d_fini")
            /\ UNCHANGED <<pended, local>>
       ELSE /\ pended' = [pended EXCEPT ![local[t].msg] = @ + 1]
            /\ local' = [local EXCEPT ![t].msg = NULL]
            /\ Goto(t, "get_lock")
    /\ UNCHANGED <<queue, head, link, pool, tls, blocked, task, ncalls, ran,
                   puts, gots, nulls, joined, ub>>

\* pthread_key_delete; pthread_mutex_destroy; msgqueue_destory;
\* if (!in_pool) free(pool); return
d_fini(t) ==
    /\ pc[t] = "d_fini"
    /\ pool' = [pool EXCEPT !.destroyed = TRUE,
                            !.freed = IF local[t].in_pool THEN @ ELSE @ + 1]
    /\ ub' = (ub \/ pool.destroyed \/ pool.freed > 0)
    /\ local' = [local EXCEPT ![t].in_destroy = FALSE, ![t].in_pool = FALSE]
    /\ Goto(t, IF local[t].in_pool THEN "w_after" ELSE "done")
    /\ UNCHANGED <<queue, head, link, tls, blocked, task, ncalls, ran, pended,
                   puts, gots, nulls, joined>>

\* a thread goes on to use the queue or the pool mutex after they were
\* destroyed, or the pool structure after it was freed: undefined from here
use_after_destroy(t) ==
    /\ \/ /\ ~QueueLive
          /\ \/ pc[t] \in {"put_lock", "put_signal", "get_lock", "snb_lock_get",
                         "x_lock", "t_lock", "inc_lock"}
             \/ pc[t] \in {"swap_wait", "put_wait", "t_wait"} /\ t \notin blocked
       \/ /\ ~PoolLive
          /\ pc[t] \in {"w_loop", "w_after", "d_enter"}
    /\ ub' = TRUE
    /\ Goto(t, "ub")
    /\ UNCHANGED <<queue, head, link, pool, tls, local, blocked, task, ncalls,
                   ran, pended, puts, gots, nulls, joined>>

-----------------------------------------------------------------------------
(* thrdpool_increase *)

\* pthread_attr_init(&attr); pthread_mutex_lock(&pool->mutex)
inc_lock(t) ==
    /\ pc[t] = "inc_lock"
    /\ QueueLive
    /\ pool.mutex = NoThread
    /\ pool' = [pool EXCEPT !.mutex = t]
    /\ Goto(t, "inc_spawn")
    /\ UNCHANGED <<queue, head, link, tls, local, blocked, task, ncalls, ran,
                   pended, puts, gots, nulls, joined, ub>>

\* ret = pthread_create(&tid, &attr, __thrdpool_routine, pool);
\* if (ret == 0) pool->nthreads++; pthread_mutex_unlock(&pool->mutex);
\* return 0, or -1 with errno = ret
\* (pthread_create fails when the system has no thread left to give)
inc_spawn(t) ==
    /\ pc[t] = "inc_spawn"
    /\ \/ \E w \in Spare :
             /\ pc[w] = "off"
             /\ pc' = [pc EXCEPT ![w] = "w_start",
                                 ![t] = IF t \in Main THEN "idle" ELSE "done"]
             /\ pool' = [pool EXCEPT !.nthreads = (@ + 1) % Word,
                                     !.mutex = NoThread]
             /\ local' = [local EXCEPT ![t].ret = 0]
       \/ /\ Goto(t, IF t \in Main THEN "idle" ELSE "done")
          /\ pool' = [pool EXCEPT !.mutex = NoThread]
          /\ local' = [local EXCEPT ![t].ret = -1]
    /\ UNCHANGED <<queue, head, link, tls, blocked, task, ncalls, ran, pended,
                   puts, gots, nulls, joined, ub>>

-----------------------------------------------------------------------------
(* The pool, its owner thread and a worker of another pool *)

PThreads == Workers \cup Main \cup Foreign

\* the result of thrdpool_create(n, stacksize) when every spawn succeeds
thrdpool_create(n) ==
    [nthreads |-> n, tid |-> ZeroTid, mutex |-> NoThread, terminate |-> NoCond,
     destroyed |-> FALSE, freed |-> 0]

PInit ==
    /\ queue = msgqueue_create(0)
    /\ head = [h \in {1, 2} |-> NULL]
    /\ link = [e \in Entry |-> NULL]
    /\ pool = thrdpool_create(Cardinality(Created))
    /\ tls = [t \in Threads |-> [k \in Keys |-> NoPool]]
    /\ pc = [t \in Threads |->
                IF t \in Created \cup Foreign THEN "w_start"
                ELSE IF t \in Main THEN "idle" ELSE "off"]
    /\ local = [t \in Threads |-> NoLocal]
    /\ blocked = {}
    /\ task = [e \in Entry |-> "none"]
    /\ ncalls = [t \in Threads |-> 0]
    /\ ran = [e \in Entry |-> 0]
    /\ pended = [e \in Entry |-> 0]
    /\ puts = << >>
    /\ gots = << >>
    /\ nulls = 0
    /\ joined = [t \in Threads |-> 0]
    /\ ub = FALSE

\* thrdpool_schedule(task, pool) by the owner: buf = malloc(...);
\* entry->task = *task; msgqueue_put(buf, pool->msgqueue)
thrdpool_schedule(t) ==
    /\ t \in Main
    /\ pc[t] = "idle"
    /\ ncalls[t] < MaxPuts
    /\ \E k \in {"plain", "destroy"} :
          task' = [task EXCEPT ![EntryOf(t, ncalls[t] + 1)] = k]
    /\ ncalls' = [ncalls EXCEPT ![t] = @ + 1]
    /\ local' = [local EXCEPT ![t].msg = EntryOf(t, ncalls[t] + 1)]
    /\ Goto(t, "put_lock")
    /\ UNCHANGED <<queue, head, link, pool, tls, blocked, ran, pended, puts,
                   gots, nulls, joined, ub>>

\* the owner calls thrdpool_destory(pending, pool)
thrdpool_destory(t) ==
    /\ t \in Main
    /\ pc[t] = "idle"
    /\ Goto(t, "d_enter")
    /\ UNCHANGED <<queue, head, link, pool, tls, local, blocked, task, ncalls,
                   ran, pended, puts, gots, nulls, joined, ub>>

\* a client thread calls thrdpool_increase(pool)
thrdpool_increase(t) ==
    /\ t \in Main \cup Growers
    /\ pc[t] = "idle"
    /\ Goto(t, "inc_lock")
    /\ UNCHANGED <<queue, head, link, pool, tls, local, blocked, task, ncalls,
                   ran, pended, puts, gots, nulls, joined, ub>>

\* one step inside the worker routine or inside thrdpool_destory
PoolStep(t) ==
    \/ w_start(t) \/ w_loop(t) \/ w_got(t) \/ w_task(t) \/ w_after(t)
    \/ x_lock(t) \/ x_leave(t) \/ x_join(t)
    \/ d_enter(t) \/ t_lock(t) \/ t_set(t) \/ t_check(t) \/ t_join(t)
    \/ d_got(t) \/ d_fini(t)
    \/ put_lock(t) \/ put_check(t) \/ put_append(t) \/ put_signal(t)
    \/ get_lock(t) \/ get_test(t) \/ swap_lock(t) \/ swap_check(t)
    \/ swap_move(t) \/ get_pop(t) \/ get_unlock(t)
    \/ snb_lock_get(t) \/ snb_lock_put(t) \/ snb_set(t)
    \/ cond_wait_return(t)

PNext ==
    \E t \in Threads :
        \/ PoolStep(t)
        \/ spurious_wakeup(t)
        \/ use_after_destroy(t)
        \/ thrdpool_schedule(t) \/ thrdpool_destory(t)

Spec == PInit /\ [][PNext]_vars

\* a thread whose next step is enabled again and again eventually takes it
PoolFair == \A t \in PThreads : SF_vars(PoolStep(t))
FairSpec == Spec /\ PoolFair

-----------------------------------------------------------------------------
(* Growth and shutdown: a pool created with one worker, a thread that calls  *)
(* thrdpool_increase and the owner, which calls thrdpool_increase and        *)
(* thrdpool_destory                                                          *)

GThreads == Workers \cup Main \cup Growers

GInit ==
    /\ queue = msgqueue_create(0)
    /\ head = [h \in {1, 2} |-> NULL]
    /\ link = [e \in Entry |-> NULL]
    /\ pool = thrdpool_create(Cardinality(First))
    /\ tls = [t \in Threads |-> [k \in Keys |-> NoPool]]
    /\ pc = [t \in Threads |->
                IF t \in First THEN "w_start"
                ELSE IF t \in Main \cup Growers THEN "idle" ELSE "off"]
    /\ local = [t \in Threads |-> NoLocal]
    /\ blocked = {}
    /\ task = [e \in Entry |-> "none"]
    /\ ncalls = [t \in Threads |-> 0]
    /\ ran = [e \in Entry |-> 0]
    /\ pended = [e \in Entry |-> 0]
    /\ puts = << >>
    /\ gots = << >>
    /\ nulls = 0
    /\ joined = [t \in Threads |-> 0]
    /\ ub = FALSE

\* one step inside the worker routine, thrdpool_increase or thrdpool_destory
\* when no task is scheduled
GrowStep(t) ==
    \/ w_start(t) \/ w_loop(t) \/ w_got(t)
    \/ x_lock(t) \/ x_leave(t) \/ x_join(t)
    \/ d_enter(t) \/ t_lock(t) \/ t_set(t) \/ t_check(t) \/ t_join(t)
    \/ d_got(t) \/ d_fini(t)
    \/ inc_lock(t) \/ inc_spawn(t)
    \/ get_lock(t) \/ get_test(t) \/ swap_lock(t) \/ swap_check(t)
    \/ swap_move(t) \/ get_unlock(t)
    \/ snb_lock_get(t) \/ snb_lock_put(t) \/ snb_set(t)
    \/ cond_wait_return(t)

GNext ==
    \E t \in Threads :
        \/ GrowStep(t)
        \/ spurious_wakeup(t)
        \/ use_after_destroy(t)
        \/ thrdpool_increase(t) \/ thrdpool_destory(t)

GrowSpec == GInit /\ [][GNext]_vars

-----------------------------------------------------------------------------
(* thrdpool_create with a thread spawn that may fail *)

\* the number of threads thrdpool_create is asked for
Requested == Cardinality(Workers)

\* __thrdpool_create_threads: while (pool->nthreads < nthreads) {
\*   ret = pthread_create(...); if (ret == 0) pool->nthreads++; else break; }
\* if (pool->nthreads == nthreads) return 0; __thrdpool_terminate(0, pool)
c_spawn(t) ==
    /\ pc[t] = "c_spawn"
    /\ IF pool.nthreads < Requested
       THEN \/ \E w \in Workers :
                 /\ pc[w] = "off"
                 /\ pc' = [pc EXCEPT ![w] = "w_start"]
                 /\ pool' = [pool EXCEPT !.nthreads = (@ + 1) % Word]
                 /\ UNCHANGED local
            \/ /\ Goto(t, "t_lock")
               /\ local' = [local EXCEPT ![t].ret = -1]
               /\ UNCHANGED pool
       ELSE /\ Goto(t, "created")
            /\ local' = [local EXCEPT ![t].in_create = FALSE]
            /\ UNCHANGED pool
    /\ UNCHANGED <<queue, head, link, tls, blocked, task, ncalls, ran, pended,
                   puts, gots, nulls, joined, ub>>

\* back in thrdpool_create after __thrdpool_create_threads returned -1:
\* pthread_key_delete; pthread_mutex_destroy; msgqueue_destory; free(pool);
\* return NULL
c_rollback(t) ==
    /\ pc[t] = "c_rollback"
    /\ pool' = [pool EXCEPT !.destroyed = TRUE, !.freed = @ + 1]
    /\ local' = [local EXCEPT ![t].in_create = FALSE]
    /\ Goto(t, "failed")
    /\ UNCHANGED <<queue, head, link, tls, blocked, task, ncalls, ran, pended,
                   puts, gots, nulls, joined, ub>>

\* thrdpool_create has reached the call of __thrdpool_create_threads
CInit ==
    /\ queue = msgqueue_create(0)
    /\ head = [h \in {1, 2} |-> NULL]
    /\ link = [e \in Entry |-> NULL]
    /\ pool = thrdpool_create(0)
    /\ tls = [t \in Threads |-> [k \in Keys |-> NoPool]]
    /\ pc = [t \in Threads |-> IF t \in Main THEN "c_spawn" ELSE "off"]
    /\ local = [t \in Threads |->
                   IF t \in Main THEN [NoLocal EXCEPT !.in_create = TRUE]
                   ELSE NoLocal]
    /\ blocked = {}
    /\ task = [e \in Entry |-> "none"]
    /\ ncalls = [t \in Threads |-> 0]
    /\ ran = [e \in Entry |-> 0]
    /\ pended = [e \in Entry |-> 0]
    /\ puts = << >>
    /\ gots = << >>
    /\ nulls = 0
    /\ joined = [t \in Threads |-> 0]
    /\ ub = FALSE

\* one step inside thrdpool_create or inside the routine of a worker it
\* has spawned
CreateStep(t) ==
    \/ c_spawn(t) \/ c_rollback(t)
    \/ w_start(t) \/ w_loop(t) \/ w_got(t)
    \/ x_lock(t) \/ x_leave(t) \/ x_join(t)
    \/ t_lock(t) \/ t_set(t) \/ t_check(t) \/ t_join(t)
    \/ get_lock(t) \/ get_test(t) \/ swap_lock(t) \/ swap_check(t)
    \/ swap_move(t) \/ get_unlock(t)
    \/ snb_lock_get(t) \/ snb_lock_put(t) \/ snb_set(t)
    \/ cond_wait_return(t)

CNext == \E t \in Threads : CreateStep(t) \/ spurious_wakeup(t)

CreateSpec == CInit /\ [][CNext]_vars

-----------------------------------------------------------------------------
(* Properties of the queue *)

GotEntries == {gots[i].e : i \in 1 .. Len(gots)}

\* msg_cnt in the sense of the data model: the current count on the
\* producer side
ProducerCount == Len(ProducerList)

\* C2: in blocking mode a consumer blocked in get while a message sits on
\* the producer list eventually returns from get (put's signal makes it leave
\* the wait in the swap with a non-zero count).
C2_PutWakesGet ==
    \A c \in QConsumers :
        (pc[c] = "swap_wait" /\ ProducerList # << >>)
            ~> (pc[c] = "idle" \/ queue.nonblock)

\* C3: get decides on the null sentinel only when the queue is in nonblock
\* mode and holds no entry on either list.
C3_NullOnlyWhenEmpty ==
    [][\A t \in Threads :
          (pc[t] = "swap_move" /\ pc'[t] = "get_unlock")
              => (queue'.nonblock /\ QueueEntries' = {})]_vars

\* C5: no entry is returned by more than one get call.
C5_DeliveredOnce ==
    \A i, j \in 1 .. Len(gots) : gots[i].e = gots[j].e => i = j

\* C5 witness: two consumers have each been handed an entry.
C5_Witness ==
    \E i, j \in 1 .. Len(gots) : gots[i].by = "c1" /\ gots[j].by = "c2"

\* C6: entries are delivered in the order in which their puts appended them
\* under put_mutex, hence in submission order for each single producer.
C6_Fifo ==
    /\ Len(gots) <= Len(puts)
    /\ \A i \in 1 .. Len(gots) : gots[i].e = puts[i]
    /\ \A i, j \in 1 .. Len(gots) :
          (i < j /\ Owner(gots[i].e) = Owner(gots[j].e)) => gots[i].e < gots[j].e

\* C6 witness: two messages of one producer and a message of the other
\* producer have been delivered.
C6_Witness ==
    /\ {EntryOf("p1", 1), EntryOf("p1", 2)} \subseteq GotEntries
    /\ \E e \in GotEntries : Owner(e) = 1

C9_NonblockWakes ==
    /\ (pc["ctl"] = "snb_lock_get") ~> (pc["ctl"] = "done")
    /\ \A c \in QConsumers :
          (pc["ctl"] = "snb_lock_get" /\ pc[c] = "swap_wait")
              ~> (pc[c] = "idle")

-----------------------------------------------------------------------------
(* Properties of the pool *)

\* the pool is only destroyed by its owner: no scheduled routine destroys it
NoSelfDestroy == \A e \in Entry : task[e] # "destroy"

\* C1: every task scheduled before shutdown is either run once by a worker
\* or handed once to the pending hook: never both, never twice, and none is
\* left over when destroy has returned.
C1_RunOrPendingOnce ==
    NoSelfDestroy =>
        /\ \A e \in Entry : ran[e] + pended[e] <= 1
        /\ pc["main"] = "done" =>
              \A e \in SeqSet(puts) : ran[e] + pended[e] = 1

\* C4: after an externally initiated destroy has returned, every worker has
\* returned from its routine.
C4_NoWorkerAfterDestroy ==
    (NoSelfDestroy /\ pc["main"] = "done") =>
        \A w \in Workers : pc[w] \in {"done", "off"}

C10_InPool ==
    \A t \in Threads :
        pc[t] # "crashed" =>
            /\ thrdpool_in_pool(t, "pool")
                  <=> (t \in Workers /\ pc[t] \notin {"off", "w_start"})
            /\ local[t].in_destroy => (local[t].in_pool <=> t \in Workers)

\* C10 witness: the owner and a worker are both inside destroy, with their
\* in_pool flags computed, while the worker of the other pool is running.
C10_Witness ==
    /\ local["main"].in_destroy
    /\ \E w \in Workers : local[w].in_destroy
    /\ pc["f1"] = "f_run"

-----------------------------------------------------------------------------
(* Properties of growth, creation and shutdown *)

\* a worker that has been spawned and has not yet executed the decrement of
\* its exit protocol
Undecremented(w) == pc[w] \notin {"off", "x_join", "done"}

\* a terminator leaves its wait having observed nthreads == 0
LeavesWait(t) == pc[t] = "t_check" /\ pc'[t] = "t_join"

\* C11 (first part): when a terminator leaves its wait, every worker spawned
\* so far, by create or by increase, has executed its decrement.
C11_NoStaleCount ==
    [][\A t \in Threads :
          LeavesWait(t) => \A w \in Workers : ~Undecremented(w)]_vars

\* C11 (last part): a spawn that fails leaves nthreads unchanged and returns
\* an error; one that succeeds counts the new worker.
C11_SpawnCounted ==
    [][\A t \in Threads :
          (pc[t] = "inc_spawn" /\ pc'[t] \in {"idle", "done"}) =>
              IF \E w \in Spare : pc[w] = "off" /\ pc'[w] = "w_start"
              THEN pool'.nthreads = pool.nthreads + 1 /\ local'[t].ret = 0
              ELSE pool'.nthreads = pool.nthreads /\ local'[t].ret = -1]_vars

\* C11 (middle part): when destroy has returned to the owner, every worker
\* added by the owner's earlier increase calls has returned and has been
\* joined.
C11_AllReaped ==
    (pc["main"] = "done" /\ pc["g1"] = "idle") =>
        \A w \in Spare :
            /\ pc[w] \in {"off", "done"}
            /\ pc[w] = "done" => joined[w] = 1

\* C11: growth is consistent with shutdown: the terminator's count is never
\* stale, destroy reaps every worker added by increase, and a failed spawn
\* changes nothing.
C11_GrowthVsShutdown ==
    C11_NoStaleCount /\ C11_SpawnCounted /\ []C11_AllReaped

\* C12: when create has returned failure after a spawn failed, every worker
\* it had spawned has returned from its routine and has been joined, and the
\* key, the mutex, the queue and the pool have been released once.
C12_CreateRollsBack ==
    pc["main"] = "failed" =>
        /\ \A w \in Workers : pc[w] \in {"off", "done"}
        /\ \A w \in Workers : pc[w] = "done" => joined[w] = 1
        /\ pool.destroyed /\ pool.freed = 1

\* C13: across a complete shutdown every worker that left through the exit
\* protocol has been joined exactly once: no worker is joined twice, none is
\* left unjoined when destroy has returned, and the terminator's join does
\* not target the zero identity.
C13_JoinChain ==
    /\ [](\A w \in Workers : joined[w] <= 1)
    /\ []((NoSelfDestroy /\ pc["main"] = "done") =>
             \A w \in Workers : pc[w] \in {"x_join", "done"} => joined[w] = 1)
    /\ [][\A t \in Threads :
             (pc[t] = "t_join" /\ pc'[t] # "t_join") => pool'.tid # ZeroTid]_vars

\* C14: an externally initiated destroy returns when every task routine
\* terminates.
C14_DestroyReturns ==
    (pc["main"] = "d_enter" /\ NoSelfDestroy) ~> (pc["main"] = "done")

\* C20: whenever a worker's exit protocol drives nthreads to zero and
\* signals pool->terminate, terminate is non-null and is the condition
\* variable of a terminator still inside its wait.
C20_TerminateLive ==
    [][\A w \in Workers :
          (pc[w] = "x_leave" /\ pc'[w] = "x_join" /\ pool'.nthreads = 0) =>
              IF pool.terminate = NoCond THEN FALSE
              ELSE pc[pool.terminate] = "t_wait"]_vars

-----------------------------------------------------------------------------
(* Properties of the queue's lists, counters and locks *)

\* the threads inside __msgqueue_swap
InSwap == {t \in Threads :
              pc[t] \in {"swap_lock", "swap_check", "swap_wait", "swap_move"}}

\* the thread that takes the step: the one whose position changes
Actor(t) == pc'[t] # pc[t]

NoDup(s) == \A i, j \in 1 .. Len(s) : s[i] = s[j] => i = j

\* C15: whenever put_mutex is free, msg_cnt equals the number of entries on
\* the producer list.
C15_CountMatches ==
    queue.put_mutex = NoThread => queue.msg_cnt = Len(ProducerList)

\* C16: when the swap returns, put_head and put_tail are the get_head
\* remembered on entry, the producer list is empty, msg_cnt is 0, get_head
\* designates the former producer list with its entries in order, and the
\* value returned is the number of entries moved to the consumer side.
C16_SwapPost ==
    [][\A t \in Threads :
          (pc[t] = "swap_move" /\ pc'[t] \in {"get_pop", "get_unlock"}) =>
              /\ queue'.put_head = local[t].get_head
              /\ queue'.put_tail = HeadSlot(local[t].get_head)
              /\ ProducerList' = << >>
              /\ queue'.msg_cnt = 0
              /\ queue'.get_head = queue.put_head
              /\ ConsumerList' = ProducerList
              /\ local'[t].cnt = Len(ConsumerList')]_vars

C18_LockDiscipline ==
    /\ [](\A t \in Threads :
             pc[t] \in {"get_lock", "snb_lock_get", "sb_lock_get"}
                 => queue.put_mutex # t)
    /\ [](~ \E t, u \in Threads :
               /\ queue.get_mutex = t
               /\ pc[t] \in {"swap_lock", "snb_lock_put", "sb_lock_put"}
               /\ queue.put_mutex = u
               /\ pc[u] \in {"get_lock", "snb_lock_get", "sb_lock_get"})
    /\ [][\A t \in Threads : Actor(t) =>
             /\ (queue'.get_mutex = t /\ queue.get_mutex # t) =>
                    queue.put_mutex # t
             /\ (\/ queue'.get_head # queue.get_head
                 \/ \E h \in {1, 2} : Len(ListAt(h)') < Len(ListAt(h))) =>
                    queue.get_mutex = t
             /\ (\/ \E h \in {1, 2} : Len(ListAt(h)') > Len(ListAt(h))
                 \/ queue'.put_head # queue.put_head
                 \/ queue'.put_tail # queue.put_tail
                 \/ queue'.msg_cnt # queue.msg_cnt) =>
                    queue.put_mutex = t]_vars

\* C18 witness: a consumer inside the swap holds both mutexes while a
\* producer waits for put_mutex and another consumer for get_mutex.
C18_Witness ==
    /\ \E t \in Threads :
          pc[t] = "swap_move" /\ queue.get_mutex = t /\ queue.put_mutex = t
    /\ \E t \in Threads : pc[t] = "put_lock"
    /\ \E t \in Threads : pc[t] = "get_lock"

\* C19: with msg_max == 0 no producer ever waits in put and the swap never
\* broadcasts put_cond, whatever msg_cnt is: msg_max - 1 wraps to the
\* largest word.
C19_Unbounded ==
    queue.msg_max = 0 =>
        /\ \A t \in Threads : pc[t] # "put_wait"
        /\ \A c \in 0 .. (Word - 1) : ~(c > WordSub(queue.msg_max, 1))

\* C19 witness: in blocking mode with msg_max == 0 a producer has passed the
\* wait loop of put with two entries already on the producer list.
C19_Witness ==
    /\ queue.msg_max = 0 /\ ~queue.nonblock
    /\ Len(ProducerList) >= 2
    /\ \E t \in Threads : pc[t] = "put_append"

=============================================================================
